---- MODULE Spec2Model ----
(***************************************************************************)
(* Model of the OpenBB documentation server (src/server.py): the section   *)
(* extractor (_find_section_content, _extract_sections_from_docs), the TOC *)
(* parser (_parse_toc) and the two tool operations                         *)
(* (_identify_sections_async, _fetch_content_async).                       *)
(*                                                                         *)
(* A Python str is a sequence of characters; a character is a one-letter   *)
(* TLA+ string.  Three literals of the program are kept as one token each  *)
(* (the truncation marker and the two halves of the not-found message):    *)
(* no document of the model contains these tokens.                         *)
(***************************************************************************)
EXTENDS Integers, Sequences, FiniteSets, TLC

VARIABLES full_docs, toc_content, pc, call, ret

vars == <<full_docs, toc_content, pc, call, ret>>

(***************************************************************************)
(* Python str operations                                                   *)
(***************************************************************************)
NL == "\n"
SP == " "

\* str.lower() on the letters the model uses
LowerChar(c) ==
    CASE c = "A" -> "a"
      [] c = "B" -> "b"
      [] c = "C" -> "c"
      [] OTHER -> c

Lower(s) == [i \in 1..Len(s) |-> LowerChar(s[i])]

\* s[i:].startswith(p), 1-based
MatchesAt(p, s, i) ==
    /\ i + Len(p) - 1 <= Len(s)
    /\ \A k \in 1..Len(p) : s[i + k - 1] = p[k]

\* p in s
Contains(p, s) == \E i \in 1..(Len(s) - Len(p) + 1) : MatchesAt(p, s, i)

\* s.startswith(p)
StartsWith(s, p) == MatchesAt(p, s, 1)

RECURSIVE LStrip(_)
LStrip(s) == IF s # <<>> /\ Head(s) \in {SP, NL} THEN LStrip(Tail(s)) ELSE s

RECURSIVE RStrip(_)
RStrip(s) ==
    IF s # <<>> /\ s[Len(s)] \in {SP, NL} THEN RStrip(SubSeq(s, 1, Len(s) - 1)) ELSE s

\* s.strip()
Strip(s) == RStrip(LStrip(s))

\* s.replace(old, new) for one-character old and new
ReplaceChar(s, old, new) == [i \in 1..Len(s) |-> IF s[i] = old THEN new ELSE s[i]]

\* s.replace(old, '') for a one-character old
RECURSIVE RemoveChar(_, _)
RemoveChar(s, old) ==
    IF s = <<>> THEN <<>>
    ELSE IF Head(s) = old THEN RemoveChar(Tail(s), old)
    ELSE <<Head(s)>> \o RemoveChar(Tail(s), old)

\* index of the first c in s at or after i, or 0
RECURSIVE IndexFrom(_, _, _)
IndexFrom(s, c, i) ==
    IF i > Len(s) THEN 0
    ELSE IF s[i] = c THEN i
    ELSE IndexFrom(s, c, i + 1)

\* the indexes of the newlines of s[lo..hi], in order (by halves: the texts are long)
RECURSIVE NewlinesIn(_, _, _)
NewlinesIn(s, lo, hi) ==
    IF lo > hi THEN <<>>
    ELSE IF lo = hi THEN (IF s[lo] = NL THEN <<lo>> ELSE <<>>)
    ELSE LET mid == (lo + hi) \div 2 IN
         NewlinesIn(s, lo, mid) \o NewlinesIn(s, mid + 1, hi)

\* s.split('\n'): the pieces between the newlines, always at least one piece
Split(s) ==
    LET nl == NewlinesIn(s, 1, Len(s)) IN
    [k \in 1..(Len(nl) + 1) |->
        SubSeq(s, IF k = 1 THEN 1 ELSE nl[k - 1] + 1,
                  IF k = Len(nl) + 1 THEN Len(s) ELSE nl[k] - 1)]

\* '\n'.join(ls) (by halves)
RECURSIVE Join(_)
Join(ls) ==
    IF ls = <<>> THEN <<>>
    ELSE IF Len(ls) = 1 THEN ls[1]
    ELSE LET h == Len(ls) \div 2 IN
         Join(SubSeq(ls, 1, h)) \o <<NL>> \o Join(SubSeq(ls, h + 1, Len(ls)))

\* Optional[str]: None is the empty tuple, a string s is <<s>>
None == <<>>
Some(s) == <<s>>

\* Python truthiness of an Optional[str]: None and '' are false
Truthy(o) == o # None /\ o[1] # <<>>

(***************************************************************************)
(* _find_section_content                                                   *)
(***************************************************************************)
MaxContentLines == 100

TruncationMarker == <<"... (content truncated)">>

patterns_to_try(title) ==
    << <<"#", SP>> \o title,
       <<"#", "#", SP>> \o title,
       <<"#", "#", "#", SP>> \o title,
       title,
       Lower(title),
       Lower(ReplaceChar(title, SP, "-")) >>

\* the test of line 316
LineMatches(pattern, line) ==
    Contains(pattern, Lower(line)) \/ Strip(Lower(line)) = pattern

\* the stop test read as (A or B) and C
IsBoundaryGrouped(current_line, line) ==
    /\ \/ StartsWith(current_line, <<"#", SP>>)
       \/ StartsWith(current_line, <<"#", "#", SP>>)
    /\ current_line # Strip(line)

\* the stop test of lines 326-328: A or (B and C)
IsBoundary(current_line, line) ==
    \/ StartsWith(current_line, <<"#", SP>>)
    \/ /\ StartsWith(current_line, <<"#", "#", SP>>)
       /\ current_line # Strip(line)

\* one pass through the while loop of lines 322-337; st.done once it has been left
ExtractStep(lines, line, st) ==
    IF st.done THEN st
    ELSE IF ~(st.j <= Len(lines)) THEN [st EXCEPT !.done = TRUE]
    ELSE IF IsBoundary(Strip(lines[st.j]), line) THEN [st EXCEPT !.done = TRUE]
    ELSE LET appended == Append(st.content_lines, lines[st.j]) IN
         IF Len(appended) > MaxContentLines
         THEN [j |-> st.j + 1, content_lines |-> Append(appended, TruncationMarker),
               done |-> TRUE]
         ELSE [j |-> st.j + 1, content_lines |-> appended, done |-> FALSE]

\* n passes through the loop, one after the other (by halves: the texts are long)
RECURSIVE ExtractSteps(_, _, _, _)
ExtractSteps(lines, line, st, n) ==
    IF n = 0 THEN st
    ELSE IF n = 1 THEN ExtractStep(lines, line, st)
    ELSE LET half == ExtractSteps(lines, line, st, n \div 2) IN
         IF half.done THEN half ELSE ExtractSteps(lines, line, half, n - n \div 2)

\* the while loop entered with j and content_lines: it is left within len(lines) passes
ExtractLoop(lines, line, j, content_lines) ==
    ExtractSteps(lines, line, [j |-> j, content_lines |-> content_lines, done |-> FALSE],
                 Len(lines)).content_lines

\* content_lines of the section that starts at lines[i]
ContentLines(lines, i) == ExtractLoop(lines, lines[i], i + 1, <<lines[i]>>)

\* the indexes of the lines a pattern matches
MatchingLines(lines, pattern) == {i \in 1..Len(lines) : LineMatches(pattern, lines[i])}

Min(S) == CHOOSE x \in S : \A y \in S : x <= y

\* the nested for loops of lines 314-339: the first pattern with a match, its first line
FindSectionContent(docs, title) ==
    LET lines == Split(docs)
        pats == patterns_to_try(title)
        hits == {p \in 1..Len(pats) : MatchingLines(lines, pats[p]) # {}}
    IN  IF hits = {} THEN None
        ELSE Some(Join(ContentLines(lines, Min(MatchingLines(lines, pats[Min(hits)])))))

(***************************************************************************)
(* _extract_sections_from_docs                                             *)
(***************************************************************************)
NotFoundMessage(title) == <<"Section '">> \o title \o <<"' not found in documentation.">>

\* content_sections[title] = value
DictSet(d, key, value) ==
    [k \in (DOMAIN d) \cup {key} |-> IF k = key THEN value ELSE d[k]]

EmptyDict == [k \in {} |-> <<>>]

\* the body of the for loop, lines 291-295
SectionEntry(docs, title) ==
    LET section_content == FindSectionContent(docs, title) IN
    IF Truthy(section_content) THEN section_content[1] ELSE NotFoundMessage(title)

\* the loop left at the first title that is not found
RECURSIVE ExtractSectionsLoopAbort(_, _, _, _)
ExtractSectionsLoopAbort(docs, section_titles, k, content_sections) ==
    IF k > Len(section_titles) THEN content_sections
    ELSE IF ~Truthy(FindSectionContent(docs, section_titles[k]))
    THEN DictSet(content_sections, section_titles[k], NotFoundMessage(section_titles[k]))
    ELSE ExtractSectionsLoopAbort(docs, section_titles, k + 1,
            DictSet(content_sections, section_titles[k],
                    SectionEntry(docs, section_titles[k])))

RECURSIVE ExtractSectionsLoop(_, _, _, _)
ExtractSectionsLoop(docs, section_titles, k, content_sections) ==
    IF k > Len(section_titles) THEN content_sections
    ELSE ExtractSectionsLoop(docs, section_titles, k + 1,
            DictSet(content_sections, section_titles[k],
                    SectionEntry(docs, section_titles[k])))

\* the loop started at the second title
ExtractSectionsFromDocsSkipFirst(docs, section_titles) ==
    ExtractSectionsLoop(docs, section_titles, 2, EmptyDict)

ExtractSectionsFromDocs(docs, section_titles) ==
    ExtractSectionsLoop(docs, section_titles, 1, EmptyDict)

(***************************************************************************)
(* The external fetch: httpx.AsyncClient.get and Response.raise_for_status *)
(***************************************************************************)
NetOutcomes == {"ok", "network_error", "http_error"}

\* client.get(url): raises on a network error, else a response
HttpGet(net, body) ==
    IF net = "network_error"
    THEN [raised |-> TRUE, error |-> "ConnectError"]
    ELSE [raised |-> FALSE, is_success |-> (net = "ok"), text |-> body]

\* response.raise_for_status(): raises unless the status is a success
RaiseForStatus(response) ==
    IF response.is_success
    THEN [raised |-> FALSE]
    ELSE [raised |-> TRUE, error |-> "HTTPStatusError"]

\* the fetch without raise_for_status()
FetchTextNoStatusCheck(net, body) ==
    LET response == HttpGet(net, body) IN
    IF response.raised THEN [raised |-> TRUE, error |-> response.error]
    ELSE [raised |-> FALSE, text |-> response.text]

\* the body of "async with ... as client" (lines 116-119, 185-188)
FetchText(net, body) ==
    LET response == HttpGet(net, body) IN
    IF response.raised THEN [raised |-> TRUE, error |-> response.error]
    ELSE LET status == RaiseForStatus(response) IN
         IF status.raised THEN [raised |-> TRUE, error |-> status.error]
         ELSE [raised |-> FALSE, text |-> response.text]

(***************************************************************************)
(* str.format on the instruction template of _fetch_content_async          *)
(***************************************************************************)
Lit(t) == [kind |-> "lit", text |-> t]
Field(n) == [kind |-> "field", text |-> n]

\* lines 199-232: the literal holds {query} and, in the citation example,
\* details=[{"Website": url}], which str.format reads as a replacement field
FetchInstructionTemplate ==
    << Lit("User's question: "), Field("query"),
       Lit("... RESPONSE GUIDELINES ... details=["), Field("\"Website\""),
       Lit("] ... OUTPUT STYLE ...") >>

\* template.format(**kwargs): KeyError at the first field kwargs does not name
RECURSIVE FormatLoop(_, _, _, _)
FormatLoop(template, kwargs, k, out) ==
    IF k > Len(template) THEN [raised |-> FALSE, text |-> out]
    ELSE IF template[k].kind = "lit"
    THEN FormatLoop(template, kwargs, k + 1, Append(out, template[k].text))
    ELSE IF template[k].text \in DOMAIN kwargs
    THEN FormatLoop(template, kwargs, k + 1, Append(out, kwargs[template[k].text]))
    ELSE [raised |-> TRUE, error |-> template[k].text]

Format(template, kwargs) == FormatLoop(template, kwargs, 1, <<>>)

(***************************************************************************)
(* _fetch_content_async and _identify_sections_async                       *)
(***************************************************************************)
FetchFailure(error, user_query) ==
    [success |-> FALSE, error |-> error, user_query |-> user_query,
     extracted_content |-> EmptyDict]

FetchContentAsync(section_titles, user_query, net, docs) ==
    LET fetched == FetchText(net, docs) IN
    IF fetched.raised THEN FetchFailure(fetched.error, user_query)
    ELSE LET content_sections == ExtractSectionsFromDocs(fetched.text, section_titles)
             instruction == Format(FetchInstructionTemplate, [query |-> user_query])
         IN  IF instruction.raised THEN FetchFailure(instruction.error, user_query)
             ELSE [success |-> TRUE, user_query |-> user_query,
                   extracted_content |-> content_sections,
                   sections_found |-> Cardinality(DOMAIN content_sections),
                   instruction |-> instruction.text]

IdentifyInstruction == <<"... SELECTION GUIDELINES ... CITATION FORMAT ...">>

IdentifySectionsAsync(user_query, net, toc) ==
    LET fetched == FetchText(net, toc) IN
    IF fetched.raised
    THEN [success |-> FALSE, error |-> fetched.error, query |-> user_query,
          raw_toc_content |-> <<>>]
    ELSE [success |-> TRUE, query |-> user_query, raw_toc_content |-> fetched.text,
          instruction |-> IdentifyInstruction]

(***************************************************************************)
(* _parse_toc                                                              *)
(***************************************************************************)
BulletMarkers ==
    { <<"-">>, <<"*">>, <<"1", ".">>, <<"2", ".">>, <<"3", ".">>, <<"4", ".">>,
      <<"5", ".">> }

IsBulletLine(line) == \E m \in BulletMarkers : StartsWith(line, m)

\* whether \[([^\]]+)\]\(([^)]+)\) matches at i; the groups end at the first ] and )
LinkClose(line, i) == IndexFrom(line, "]", i + 1)
LinkEnd(line, i) == IndexFrom(line, ")", LinkClose(line, i) + 2)

LinkAt(line, i) ==
    /\ line[i] = "["
    /\ LinkClose(line, i) >= i + 2
    /\ LinkClose(line, i) + 1 <= Len(line)
    /\ line[LinkClose(line, i) + 1] = "("
    /\ LinkEnd(line, i) >= LinkClose(line, i) + 3

\* re.search: the leftmost match, as <<group(1), group(2)>>, or None
LinkSearch(line) ==
    LET starts == {i \in 1..Len(line) : LinkAt(line, i)} IN
    IF starts = {} THEN None
    ELSE LET i == Min(starts) IN
         << SubSeq(line, i + 1, LinkClose(line, i) - 1),
            SubSeq(line, LinkClose(line, i) + 2, LinkEnd(line, i) - 1) >>

\* the test of line 272; query is an Optional[str]
QueryRejects(query, title, current_category) ==
    /\ Truthy(query)
    /\ ~Contains(Lower(query[1]), Lower(title))
    /\ ~Contains(Lower(query[1]), Lower(current_category))

SectionRecord(title, current_category, url) ==
    [title |-> title, category |-> current_category, url |-> url,
     description |-> IF current_category # <<>>
                     THEN current_category \o <<":", SP>> \o title
                     ELSE title]

\* lines 261-262
NextCategory(line, current_category) ==
    IF line # <<>> /\ ~StartsWith(line, <<"#">>) /\ ~StartsWith(line, <<"h", "t", "t", "p">>)
    THEN Strip(RemoveChar(line, "#"))
    ELSE current_category

\* the for loop of lines 251-280
RECURSIVE ParseTocLoop(_, _, _, _, _)
ParseTocLoop(lines, k, query, current_category, sections) ==
    IF k > Len(lines) THEN sections
    ELSE LET line == Strip(lines[k]) IN
         IF line = <<>> THEN ParseTocLoop(lines, k + 1, query, current_category, sections)
         ELSE IF ~IsBulletLine(line)
         THEN ParseTocLoop(lines, k + 1, query, NextCategory(line, current_category),
                           sections)
         ELSE LET link_match == LinkSearch(line) IN
              IF link_match = None
              THEN ParseTocLoop(lines, k + 1, query, current_category, sections)
              ELSE LET title == Strip(link_match[1])
                       url == Strip(link_match[2])
                   IN  IF QueryRejects(query, title, current_category)
                       THEN ParseTocLoop(lines, k + 1, query, current_category, sections)
                       ELSE ParseTocLoop(lines, k + 1, query, current_category,
                                Append(sections,
                                       SectionRecord(title, current_category, url)))

ParseToc(toc, query) == ParseTocLoop(Split(Strip(toc)), 1, query, <<>>, <<>>)

(***************************************************************************)
(* Inputs: documents, titles, TOC texts, queries                           *)
(***************************************************************************)
MaxDocLines == 2
MaxTitles == 2
MaxTocLines == 3
MaxToolLines == 1
PadSlack == 1

\* every sequence over S of length lo..hi
SeqsOf(S, lo, hi) == UNION {[1..n -> S] : n \in lo..hi}

Repeat(x, n) == [i \in 1..n |-> x]

DocLines ==
    { <<"#", SP, "A">>,            \* a top-level heading
      <<"#", "#", SP, "A">>,       \* a second-level heading
      <<"#", "#", SP, "B">>,       \* another second-level heading
      <<SP, "#", SP, "B">>,        \* an indented top-level heading
      <<"x", SP, "a">>,            \* body text that mentions a
      <<"x">>,                     \* body text
      <<>>,                        \* an empty line
      <<"a", "-", "b">> }          \* a slug

ShortDocs == {Join(ls) : ls \in SeqsOf(DocLines, 1, MaxDocLines)}

\* a heading, then n body lines, then the end of the text or another heading
LongDocs ==
    { Join(<<h>> \o Repeat(<<"x">>, n) \o t) :
        h \in { <<"#", SP, "A">>, <<"#", "#", SP, "A">> },
        n \in (MaxContentLines - 2)..(MaxContentLines + PadSlack),
        t \in { <<>>, << <<"#", SP, "B">> >>, << <<"#", "#", SP, "A">>, <<"x">> >> } }

Docs == ShortDocs \cup LongDocs

Titles == { <<>>, <<"A">>, <<"a">>, <<"A", SP, "b">> }

TitleLists == SeqsOf(Titles, 0, MaxTitles)

Queries == {"how do I start?", "what is a widget?"}

TocLines ==
    { <<"C">>,                                   \* a category header
      <<"#", SP, "B">>,                          \* a # header
      <<"-", SP, "[", "A", "]", "(", "u", ")">>, \* a bullet with a link
      <<"*", SP, "[", SP, "]", "(", "u", ")">>,  \* a link whose text is blank
      <<"1", ".", "[", "b", "]", "(", SP, ")">>, \* a link whose url is blank
      <<"-", SP, "[", "A", "]", SP, "(", "u", ")">>, \* no link: ] is not followed by (
      <<"-", "[", "[", "a", "]", "(", "u", "(", "x", ")", "[", "b", "]", "(", "x", ")">>,
      <<>> }

Tocs == {Join(ls) : ls \in SeqsOf(TocLines, 1, MaxTocLines)}

\* Optional[str] filters of _parse_toc
TocQueries == { None, Some(<<>>), Some(<<"A">>), Some(<<"c">>) }

DefaultDoc == Join(<< <<"#", SP, "A">>, <<"x">> >>)
DefaultToc == Join(<< <<"C">>, <<"-", SP, "[", "A", "]", "(", "u", ")">> >>)

\* the remote texts the two tools are run against
ToolDocs == {Join(ls) : ls \in SeqsOf(DocLines, 1, MaxToolLines)}
ToolTocs == {Join(ls) : ls \in SeqsOf(TocLines, 1, MaxToolLines)}

(***************************************************************************)
(* The server: one call at a time over the remote documents                *)
(***************************************************************************)
Idle ==
    /\ pc = "idle"
    /\ call = [op |-> "none"]
    /\ ret = None

\* the section extractor over every document
InitExtract == full_docs \in Docs /\ toc_content = DefaultToc /\ Idle

\* the TOC parser over every TOC text
InitToc == full_docs = DefaultDoc /\ toc_content \in Tocs /\ Idle

\* the tools over the remote texts
InitTools ==
    /\ \/ full_docs \in ToolDocs /\ toc_content = DefaultToc
       \/ full_docs = DefaultDoc /\ toc_content \in ToolTocs
    /\ Idle

Init == InitExtract \/ InitToc \/ InitTools

\* _find_section_content(full_docs, title), as the test script calls it
FindSection(title) ==
    /\ pc = "idle"
    /\ call' = [op |-> "find_section", title |-> title]
    /\ ret' = FindSectionContent(full_docs, title)
    /\ pc' = "done"
    /\ UNCHANGED <<full_docs, toc_content>>

\* _extract_sections_from_docs(full_docs, section_titles)
ExtractSections(section_titles) ==
    /\ pc = "idle"
    /\ call' = [op |-> "extract_sections", section_titles |-> section_titles]
    /\ ret' = ExtractSectionsFromDocs(full_docs, section_titles)
    /\ pc' = "done"
    /\ UNCHANGED <<full_docs, toc_content>>

\* the tool fetch_openbb_content
FetchContent(section_titles, user_query, net) ==
    /\ pc = "idle"
    /\ call' = [op |-> "fetch_content", section_titles |-> section_titles,
                user_query |-> user_query, net |-> net]
    /\ ret' = FetchContentAsync(section_titles, user_query, net, full_docs)
    /\ pc' = "done"
    /\ UNCHANGED <<full_docs, toc_content>>

\* the tool identify_openbb_docs_sections
IdentifySections(user_query, net) ==
    /\ pc = "idle"
    /\ call' = [op |-> "identify_sections", user_query |-> user_query, net |-> net]
    /\ ret' = IdentifySectionsAsync(user_query, net, toc_content)
    /\ pc' = "done"
    /\ UNCHANGED <<full_docs, toc_content>>

\* _parse_toc(toc_content, query)
ParseTocCall(query) ==
    /\ pc = "idle"
    /\ call' = [op |-> "parse_toc", query |-> query]
    /\ ret' = ParseToc(toc_content, query)
    /\ pc' = "done"
    /\ UNCHANGED <<full_docs, toc_content>>

\* the result goes back to the caller; nothing is kept between calls
Return ==
    /\ pc = "done"
    /\ pc' = "idle"
    /\ call' = [op |-> "none"]
    /\ ret' = None
    /\ UNCHANGED <<full_docs, toc_content>>

NextExtract ==
    \/ \E title \in Titles : FindSection(title)
    \/ \E section_titles \in TitleLists : ExtractSections(section_titles)
    \/ Return

NextToc ==
    \/ \E query \in TocQueries : ParseTocCall(query)
    \/ Return

NextTools ==
    \/ \E section_titles \in TitleLists, user_query \in Queries, net \in NetOutcomes :
          FetchContent(section_titles, user_query, net)
    \/ \E user_query \in Queries, net \in NetOutcomes : IdentifySections(user_query, net)
    \/ Return

Next == NextExtract \/ NextToc \/ NextTools

\* _find_section_content and _extract_sections_from_docs
SpecExtract == InitExtract /\ [][NextExtract]_vars

\* _parse_toc
SpecToc == InitToc /\ [][NextToc]_vars

\* the two tools
SpecTools == InitTools /\ [][NextTools]_vars

\* the whole server
Spec == Init /\ [][Next]_vars

(***************************************************************************)
(* Properties                                                              *)
(***************************************************************************)
Done(op) == pc = "done" /\ call.op = op

Range(f) == {f[k] : k \in DOMAIN f}

\* the lines of a returned text
ResultLines(text) == Split(text)

HeadingLines(title) ==
    { <<"#", SP>> \o title, <<"#", "#", SP>> \o title, <<"#", "#", "#", SP>> \o title }

\* none of the six patterns matches any line of the document
NoPatternMatches(docs, title) ==
    LET lines == Split(docs)
        pats == patterns_to_try(title)
    IN  \A p \in 1..6 : \A i \in 1..Len(lines) : ~LineMatches(pats[p], lines[i])

\* a line that ends the section that started with the line first (C10, amended)
EndsSection(l, first) ==
    \/ StartsWith(Strip(l), <<"#", SP>>)
    \/ StartsWith(Strip(l), <<"#", "#", SP>>) /\ Strip(l) # Strip(first)

Truncated(rl) == rl[Len(rl)] = TruncationMarker

\* the lines of the document the result holds
ContentOf(rl) == IF Truncated(rl) THEN SubSeq(rl, 1, Len(rl) - 1) ELSE rl

\* C1 as stated: the mapping returned by extract_sections has as many entries as
\* the list of requested titles, duplicates and empty titles included.
C1_AsStated ==
    Done("extract_sections") => Cardinality(DOMAIN ret) = Len(call.section_titles)

\* C1 amended: the mapping returned by extract_sections has exactly one entry per
\* distinct requested title (the empty title included), so it has as many entries
\* as the list exactly when the list holds no title twice.
C1_OneEntryPerDistinctTitle ==
    Done("extract_sections") =>
        /\ DOMAIN ret = Range(call.section_titles)
        /\ Cardinality(DOMAIN ret) = Cardinality(Range(call.section_titles))
        /\ (Cardinality(DOMAIN ret) = Len(call.section_titles)) <=>
              (\A i, j \in 1..Len(call.section_titles) :
                  call.section_titles[i] = call.section_titles[j] => i = j)

C1_Witness ==
    /\ Done("extract_sections")
    /\ Len(call.section_titles) = 2
    /\ call.section_titles[1] = call.section_titles[2]
    /\ Cardinality(DOMAIN ret) = 1

\* C2 as stated: when the document holds a heading line of the title ("# T", "## T"
\* or "### T"), the entry extracted for T is not the not-found message and holds
\* such a heading line, whatever precedes the heading.
C2_AsStated ==
    Done("extract_sections") =>
        \A title \in Range(call.section_titles) :
            (\E i \in 1..Len(Split(full_docs)) : Split(full_docs)[i] \in HeadingLines(title))
            => /\ ret[title] # NotFoundMessage(title)
               /\ \E k \in 1..Len(ResultLines(ret[title])) :
                     /\ ResultLines(ret[title])[k] \in HeadingLines(title)
                     /\ \E i \in 1..Len(Split(full_docs)) :
                           Split(full_docs)[i] = ResultLines(ret[title])[k]

\* C3 as stated: the text find_section returns has at most 101 lines, at most 100
\* content lines followed by the one marker line, and the marker is there only when
\* the section goes on after the lines returned.
C3_AsStated ==
    (Done("find_section") /\ ret # None) =>
        LET rl == ResultLines(ret[1]) IN
        /\ Len(rl) <= MaxContentLines + 1
        /\ Cardinality({k \in 1..Len(rl) : rl[k] # TruncationMarker}) <= MaxContentLines
        /\ Truncated(rl) =>
              \E i \in 1..Len(Split(full_docs)) :
                  /\ i + Len(rl) - 1 <= Len(Split(full_docs))
                  /\ ContentOf(rl) = SubSeq(Split(full_docs), i, i + Len(rl) - 2)
                  /\ ~EndsSection(Split(full_docs)[i + Len(rl) - 1], rl[1])

\* C4 as stated: the entry stored for the empty title is the not-found message,
\* never text of the document.
C4_AsStated ==
    (Done("extract_sections") /\ <<>> \in Range(call.section_titles)) =>
        /\ <<>> \in DOMAIN ret
        /\ ret[<<>>] = NotFoundMessage(<<>>)

\* C5: a requested title X that no pattern matches in any line gets exactly the
\* not-found message for X under key X, and every other requested title still gets
\* the entry it gets when requested alone.
C5_NotFoundDoesNotAbort ==
    Done("extract_sections") =>
        LET requested == Range(call.section_titles)
            missing == {X \in requested : NoPatternMatches(full_docs, X)}
        IN  /\ \A X \in missing :
                  /\ X \in DOMAIN ret
                  /\ ret[X] = NotFoundMessage(X)
            /\ \A t \in requested :
                  (\E X \in missing : X # t) =>
                      /\ t \in DOMAIN ret
                      /\ ret[t] = ExtractSectionsFromDocs(full_docs, <<t>>)[t]

C5_Witness ==
    /\ Done("extract_sections")
    /\ Len(call.section_titles) = 2
    /\ NoPatternMatches(full_docs, call.section_titles[1])
    /\ call.section_titles[2] # call.section_titles[1]
    /\ ret[call.section_titles[1]] = NotFoundMessage(call.section_titles[1])
    /\ ret[call.section_titles[2]] # NotFoundMessage(call.section_titles[2])

\* C6 as stated: every record parse_toc returns has a non-empty title and a
\* non-empty url, both taken from inside one [title](url) link of a bullet or
\* ordinal line of the input.
C6_AsStated ==
    Done("parse_toc") =>
        \A k \in 1..Len(ret) :
            /\ ret[k].title # <<>>
            /\ ret[k].url # <<>>
            /\ \E i \in 1..Len(Split(toc_content)) :
                  LET line == Split(toc_content)[i] IN
                  /\ IsBulletLine(Strip(line))
                  /\ LinkSearch(Strip(line)) # None
                  /\ Contains(ret[k].title, LinkSearch(Strip(line))[1])
                  /\ Contains(ret[k].url, LinkSearch(Strip(line))[2])

\* C7: when the fetch of the TOC or of the full text fails (network error or
\* non-success status) the tool returns a result, raising nothing, with success
\* false, an error message and empty content.
C7_FetchFailureIsData ==
    /\ (Done("fetch_content") /\ call.net # "ok") =>
          /\ DOMAIN ret = {"success", "error", "user_query", "extracted_content"}
          /\ ret.success = FALSE
          /\ ret.error \in {"ConnectError", "HTTPStatusError"}
          /\ ret.user_query = call.user_query
          /\ DOMAIN ret.extracted_content = {}
    /\ (Done("identify_sections") /\ call.net # "ok") =>
          /\ DOMAIN ret = {"success", "error", "query", "raw_toc_content"}
          /\ ret.success = FALSE
          /\ ret.error \in {"ConnectError", "HTTPStatusError"}
          /\ ret.query = call.user_query
          /\ ret.raw_toc_content = <<>>

C7_Witness ==
    /\ Done("fetch_content")
    /\ call.net = "http_error"
    /\ full_docs # <<>>
    /\ Len(call.section_titles) > 0
    /\ ret.success = FALSE
    /\ DOMAIN ret.extracted_content = {}

\* C8 as stated: when the fetch of the full text succeeds, fetch_openbb_content
\* returns success = true, the caller's user_query, the mapping extract_sections
\* produces for the requested titles, its number of entries and the instruction.
C8_AsStated ==
    (Done("fetch_content") /\ call.net = "ok") =>
        /\ ret.success = TRUE
        /\ ret.user_query = call.user_query
        /\ ret.extracted_content = ExtractSectionsFromDocs(full_docs, call.section_titles)
        /\ ret.sections_found = Cardinality(DOMAIN ret.extracted_content)
        /\ "instruction" \in DOMAIN ret

\* the match test of C9: pattern and line both compared without case
MatchesIgnoringCase(pattern, line) ==
    Contains(Lower(pattern), Lower(line)) \/ Strip(Lower(line)) = Lower(pattern)

\* the section start of C9: the first matching line of the first pattern with a match
StartIgnoringCase(lines, title) ==
    LET pats == patterns_to_try(title)
        hit(p) == {i \in 1..Len(lines) : MatchesIgnoringCase(pats[p], lines[i])}
        firsts == {p \in 1..Len(pats) : hit(p) # {}}
    IN  IF firsts = {} THEN 0 ELSE Min(hit(Min(firsts)))

\* C9 as stated: the six patterns are tried in their order, each compared
\* case-insensitively with the lines, and the section starts at the first matching
\* line of the first pattern that matches: a later heading "# Title" wins over an
\* earlier line that only holds the lower-cased title.
C9_AsStated ==
    Done("find_section") =>
        LET lines == Split(full_docs)
            start == StartIgnoringCase(lines, call.title)
        IN  /\ (ret = None) <=> (start = 0)
            /\ ret # None => ResultLines(ret[1])[1] = lines[start]

\* C10 as stated: no line after the first line of the text find_section returns
\* starts with "# " or "## ".
C10_AsStated ==
    (Done("find_section") /\ ret # None) =>
        \A k \in 2..Len(ResultLines(ret[1])) :
            /\ ~StartsWith(ResultLines(ret[1])[k], <<"#", SP>>)
            /\ ~StartsWith(ResultLines(ret[1])[k], <<"#", "#", SP>>)

\* C10 amended: extraction stops before the first line after the matched line that,
\* stripped of surrounding blanks, starts with "# ", or starts with "## " and
\* differs from the stripped matched line.  No line after the first line of the
\* result is such a line, the boundary line is left out, and when there is no such
\* line and nothing is truncated the whole rest of the document is included.
C10_StopsAtBoundary ==
    (Done("find_section") /\ ret # None) =>
        LET lines == Split(full_docs)
            rl == ResultLines(ret[1])
            content == ContentOf(rl)
        IN  /\ \A k \in 2..Len(content) : ~EndsSection(content[k], rl[1])
            /\ \E i \in 1..Len(lines) :
                  /\ i + Len(content) - 1 <= Len(lines)
                  /\ content = SubSeq(lines, i, i + Len(content) - 1)
                  /\ \/ Truncated(rl)
                     \/ i + Len(content) - 1 = Len(lines)
                     \/ EndsSection(lines[i + Len(content)], rl[1])

C10_Witness ==
    /\ Done("find_section")
    /\ ret # None
    /\ \E k \in 2..Len(ResultLines(ret[1])) :
          StartsWith(ResultLines(ret[1])[k], <<"#", "#", SP>>)

====
